---- MODULE Spec2Model ----
(***************************************************************************)
(* Model of github.com/aidansteele/har: the RoundTripper interception      *)
(* layer (round_tripper.go) and the two streaming writers HarWriter and    *)
(* HarNDWriter (writers.go), all of which write to one io.Writer sink.     *)
(*                                                                         *)
(* One behaviour exercises one of the three objects (kind), constructed    *)
(* over an empty sink by Construct.  Goroutines (Procs) then issue calls.  *)
(* The sink is the sequence of the chunks handed to successful Write       *)
(* calls; a failing Write appends nothing.                                 *)
(***************************************************************************)
EXTENDS Integers, Sequences, FiniteSets, TLC

\* ---------------------------------------------------------------- bounds
NumProcs == 2
MaxOps == 3
MaxFail == 1

Procs == 1..NumProcs

VARIABLES
    kind,       \* which object the program constructs: "rt", "hw" or "nd"
    optsIn,     \* the *Options handed to New
    obj,        \* "none" before construction, "ready", or "failed"
    opts,       \* rt.opts after the defaults were substituted
    first,      \* RoundTripper.first / HarWriter.first
    closed,     \* HarWriter.closed
    mut,        \* sync.Mutex: 0 when free, else the goroutine holding it
    sink,       \* what the io.Writer has accepted, one chunk per Write
    fails,      \* number of Write calls the sink has refused
    pc,         \* per goroutine: position in the call it is executing
    call,       \* per goroutine: its current (or, when idle, last) call
    nextId,     \* id the next call gets
    lockOrder,  \* call ids in the order their Lock() calls returned
    finalized,  \* some Close call has returned
    succeeded,  \* ids of the RoundTrip calls that returned a nil error
    input,      \* function-level specifications: the argument of the function
    output      \* function-level specifications: its result, once computed

vars == <<kind, optsIn, obj, opts, first, closed, mut, sink, fails, pc, call,
          nextId, lockOrder, finalized, succeeded, input, output>>

\* ------------------------------------------------------------ constants
\* A *Creator: isNil marks the nil pointer.
Creator(n, v) == [isNil |-> FALSE, Name |-> n, Version |-> v]
NilCreator == [isNil |-> TRUE, Name |-> "", Version |-> ""]

\* round_tripper.go:19-27
DefaultCreator == Creator("github.com/aidansteele/har", "0.1")
DefaultOptions == [isNil |-> FALSE, Creator |-> DefaultCreator, Rewrite |-> "identity"]

\* The *Options a caller can hand to New: nil, or a struct whose Creator and
\* Rewrite are each nil or set.  NewHarWriter takes the Creator alone.
NilOptions == [isNil |-> TRUE, Creator |-> NilCreator, Rewrite |-> "nil"]
Option(c, r) == [isNil |-> FALSE, Creator |-> c, Rewrite |-> r]
OptionInputs ==
    {NilOptions,
     Option(NilCreator, "custom"),
     Option(Creator("tool", "1"), "nil"),
     Option(Creator("", "1"), "nil"),
     Option(Creator("tool", ""), "custom")}

\* ------------------------------------------------------------- the sink
\* One chunk per Write call: k is the byte string written (by name), e the
\* entry it carries (call id and the form the rewrite hook gave it), op the
\* call that wrote it and locked whether the writer held the mutex.
Chunk(k, e, op, locked) == [k |-> k, e |-> e, op |-> op, locked |-> locked]
NoEntry == <<0, "none">>

Pre1 == Chunk("{\"log\":{\"version\":\"1.2\",\"creator\":", NoEntry, 0, FALSE)
\* json.Marshal(creator): "null" for a nil pointer
CreatorJson(c) ==
    Chunk("creator", <<0, IF c.isNil THEN "null" ELSE c.Name>>, 0, FALSE)
Pre3 == Chunk(",\"entries\":[\n", NoEntry, 0, FALSE)
Sep(op, l) == Chunk(",\n", NoEntry, op, l)
Post(op, l) == Chunk("\n]}}", NoEntry, op, l)
\* Newline with the fault that the framed writer's separator is written.
NewlineAsSep(op, l) == Chunk(",\n", NoEntry, op, l)
\* writers.go:107
Newline(op, l) == Chunk("\n", NoEntry, op, l)
EntryChunk(e, op, l) == Chunk("entry", e, op, l)
Torn(op) == Chunk("torn", NoEntry, op, FALSE)

\* io.Writer.Write: the chunk is appended when the sink accepts it.
SinkWrite(s, c, ok) == IF ok THEN Append(s, c) ELSE s
\* The sink may refuse a write as long as the failure budget lasts.
WriteOutcomes == IF fails < MaxFail THEN {TRUE, FALSE} ELSE {TRUE}
Refused(ok) == IF ok THEN fails ELSE fails + 1

\* ---------------------------------------------------------------- calls
NoCall == [id |-> 0, op |-> "none", state |-> "none", pre |-> "none",
           delegated |-> FALSE, tres |-> "none",
           post |-> "none", hook |-> "none", afterClose |-> FALSE,
           rresp |-> "nil", rerr |-> "nil"]

Init ==
    /\ kind \in {"rt", "hw", "nd"}
    /\ optsIn \in OptionInputs
    /\ (kind = "hw" => optsIn.isNil = FALSE /\ optsIn.Rewrite = "nil")
    /\ (kind = "nd" => optsIn = NilOptions)
    /\ obj = "none"
    /\ opts = DefaultOptions
    /\ first = FALSE
    /\ closed = FALSE
    /\ mut = 0
    /\ sink = <<>>
    /\ fails = 0
    /\ pc = [p \in Procs |-> "idle"]
    /\ call = [p \in Procs |-> NoCall]
    /\ nextId = 1
    /\ lockOrder = <<>>
    /\ finalized = FALSE
    /\ succeeded = {}
    /\ input = "none"
    /\ output = "none"

\* ---------------------------------------------------------- construction
\* The three Write calls of the preamble; n of them succeed before the sink
\* refuses one (n = 3: all succeed).
PreambleChunks(c) == <<Pre1, CreatorJson(c), Pre3>>
writePreamble(c, n) == SubSeq(PreambleChunks(c), 1, n)
PreambleOutcomes == IF fails < MaxFail THEN 0..3 ELSE {3}

\* New, the defaults it substitutes.
EffectiveOptions(o) ==
    LET o1 == IF o.isNil THEN DefaultOptions ELSE o
        o2 == IF o1.Rewrite = "nil"
              THEN [o1 EXCEPT !.Rewrite = DefaultOptions.Rewrite] ELSE o1
    IN  IF o2.Creator.isNil THEN [o2 EXCEPT !.Creator = DefaultOptions.Creator] ELSE o2

\* CreatorRejected with the fault that the version is not looked at.
CreatorRejectedNameOnly(c) == c.Name = ""

\* round_tripper.go:59-65
CreatorRejected(c) == c.Name = "" \/ c.Version = ""

New ==
    /\ kind = "rt" /\ obj = "none"
    /\ LET o == EffectiveOptions(optsIn) IN
       IF CreatorRejected(o.Creator)
       THEN /\ obj' = "failed"
            /\ UNCHANGED <<opts, first, sink, fails>>
       ELSE \E n \in PreambleOutcomes :
            /\ sink' = sink \o writePreamble(o.Creator, n)
            /\ fails' = IF n = 3 THEN fails ELSE fails + 1
            /\ obj' = IF n = 3 THEN "ready" ELSE "failed"
            /\ opts' = o
            /\ first' = TRUE
    /\ UNCHANGED <<input, output, kind, optsIn, closed, mut, pc, call, nextId, lockOrder, finalized,
                   succeeded>>

NewHarWriter ==
    /\ kind = "hw" /\ obj = "none"
    /\ \E n \in PreambleOutcomes :
       /\ sink' = sink \o writePreamble(optsIn.Creator, n)
       /\ fails' = IF n = 3 THEN fails ELSE fails + 1
       /\ obj' = IF n = 3 THEN "ready" ELSE "failed"
       /\ first' = (n = 3)
    /\ UNCHANGED <<input, output, kind, optsIn, opts, closed, mut, pc, call, nextId, lockOrder, finalized,
                   succeeded>>

NewHarNDWriter ==
    /\ kind = "nd" /\ obj = "none"
    /\ obj' = "ready"
    /\ UNCHANGED <<input, output, kind, optsIn, opts, first, closed, mut, sink, fails, pc, call,
                   nextId, lockOrder, finalized, succeeded>>

\* ------------------------------------------------------- call bookkeeping
Me(p) == call[p].id

\* A goroutine calls op: the call gets the next id.
\* Goroutines are interchangeable: the call runs on the first idle one.
Invoke(p, op, at) ==
    /\ obj = "ready" /\ pc[p] = "idle" /\ nextId <= MaxOps
    /\ \A q \in Procs : q < p => pc[q] # "idle"
    /\ call' = [call EXCEPT ![p] =
                  [NoCall EXCEPT !.id = nextId, !.op = op, !.state = "running",
                                 !.afterClose = finalized]]
    /\ pc' = [pc EXCEPT ![p] = at]
    /\ nextId' = nextId + 1
    /\ UNCHANGED <<input, output, kind, optsIn, obj, opts, first, closed, mut, sink, fails,
                   lockOrder, finalized, succeeded>>

\* The call of p goes on at `at` with its record updated to c.
Continue(p, c, at) ==
    /\ call' = [call EXCEPT ![p] = c]
    /\ pc' = [pc EXCEPT ![p] = at]
    /\ UNCHANGED succeeded

\* The call of p returns (resp, err) with its record updated to c.  The
\* record stays until the goroutine makes its next call.
Return(p, c, resp, err) ==
    /\ call' = [call EXCEPT ![p] =
                  [c EXCEPT !.state = "returned", !.rresp = resp, !.rerr = err]]
    /\ pc' = [pc EXCEPT ![p] = "idle"]
    /\ succeeded' = IF c.op = "RoundTrip" /\ err = "nil"
                    THEN succeeded \cup {c.id} ELSE succeeded

\* LockFree with the fault that Lock never blocks.
LockNeverBlocks == TRUE

\* sync.Mutex
LockFree == mut = 0
Lock(p, at) ==
    /\ LockFree
    /\ mut' = p
    /\ lockOrder' = Append(lockOrder, Me(p))
    /\ pc' = [pc EXCEPT ![p] = at]
    /\ UNCHANGED <<input, output, kind, optsIn, obj, opts, first, closed, sink, fails, call,
                   nextId, finalized, succeeded>>

\* Unlocked with the fault that the deferred Unlock is missing: the mutex
\* stays with its holder.
UnlockForgotten == mut

\* `defer mut.Unlock()`: the mutex once the call has returned
Unlocked == 0

\* ------------------------------------------------ RoundTripper.RoundTrip
\* What preRoundTrip reads of a request: whether it has a Body, what GetBody
\* is and returns, whether io.ReadAll succeeds, the Content-Type header and
\* whether the form body decodes.
Request(b, g, rd, ct, f) ==
    [body |-> b, getBody |-> g, read |-> rd, ctype |-> ct, form |-> f]
ContentTypes == {"", "malformed", "application/x-www-form-urlencoded",
                 "multipart/form-data", "application/json"}
Requests ==
    {Request("nil", "nil", "ok", "", "ok"),
     Request("present", "nil", "ok", "application/json", "ok"),
     Request("present", "err", "ok", "application/json", "ok"),
     Request("present", "ok", "err", "application/json", "ok")}
    \cup {Request("present", "ok", "ok", ct, f) :
             ct \in ContentTypes, f \in {"ok", "malformed"}}

\* mime.ParseMediaType: the media type, or "err" (an empty header has no
\* media type).
ParseMediaType(h) == IF h \in {"", "malformed"} THEN "err" ELSE h

\* preRoundTrip: "ok", "panic" (GetBody is a nil func) or the error returned.
preRoundTrip(r) ==
    IF r.body = "nil" THEN "ok"
    ELSE IF r.getBody = "nil" THEN "panic"
    ELSE IF r.getBody = "err" THEN "getting body"
    ELSE IF r.read = "err" THEN "reading request body"
    ELSE IF ParseMediaType(r.ctype) = "err" THEN "parsing request Content-Type"
    ELSE IF ParseMediaType(r.ctype) = "application/x-www-form-urlencoded"
            /\ r.form = "malformed"
         THEN "parsing urlencoded form in request body"
    ELSE IF ParseMediaType(r.ctype) = "multipart/form-data" /\ r.form = "malformed"
         THEN "parsing multipart form in request body"
    ELSE "ok"

PreErrors == {"getting body", "reading request body", "parsing request Content-Type",
              "parsing urlencoded form in request body",
              "parsing multipart form in request body"}

\* What the inner transport can return: a response, or one of its errors.
TransportErrs == {"dial tcp: no such host", "context deadline exceeded"}
TransportResults == {"resp"} \cup TransportErrs

\* What postRoundTrip reads of a response.
Responses ==
    [read : {"ok", "err"},
     ctype : {"", "malformed", "text/plain", "application/json"}]

IsText(mediaType) == mediaType = "text/plain"

\* postRoundTrip: the encoding of the captured body, or the error returned.
postRoundTrip(r) ==
    IF r.read = "err" THEN "unexpected EOF"
    ELSE IF ParseMediaType(r.ctype) = "err" THEN "parsing response Content-Type"
    ELSE IF IsText(ParseMediaType(r.ctype)) THEN "text"
    ELSE "base64"

PostErrors == {"unexpected EOF", "parsing response Content-Type"}

\* What opts.Rewrite can return for an entry: the default hook returns the
\* entry; a caller's hook may return nil, an empty non-nil slice or bytes of
\* its choice (the entry with a field added, say).
HookResults(rewrite) ==
    IF rewrite = "identity" THEN {"same"} ELSE {"nil", "empty", "rewritten"}

\* RoundTrip with the fault that rt.mut is taken on entry, for the whole
\* exchange.
RoundTripHoldingLock(p) ==
    /\ kind = "rt"
    /\ obj = "ready" /\ pc[p] = "idle" /\ nextId <= MaxOps /\ mut = 0
    /\ \A q \in Procs : q < p => pc[q] # "idle"
    /\ call' = [call EXCEPT ![p] =
                  [NoCall EXCEPT !.id = nextId, !.op = "RoundTrip",
                                 !.state = "running", !.afterClose = finalized]]
    /\ pc' = [pc EXCEPT ![p] = "pre"]
    /\ nextId' = nextId + 1
    /\ mut' = p
    /\ UNCHANGED <<input, output, kind, optsIn, obj, opts, first, closed, sink, fails,
                   lockOrder, finalized, succeeded>>

RoundTrip(p) ==
    /\ kind = "rt"
    /\ Invoke(p, "RoundTrip", "pre")

\* PreFailed with the fault that the error of preRoundTrip is dropped.
PreNeverFailed(out) == FALSE

\* round_tripper.go:116: preRoundTrip returned an error
PreFailed(out) == out # "ok"

RT_preRoundTrip(p) ==
    /\ kind = "rt" /\ pc[p] = "pre"
    /\ \E r \in Requests :
       LET out == preRoundTrip(r)
           c == [call[p] EXCEPT !.pre = out]
       IN  IF out = "panic"
           THEN Continue(p, [c EXCEPT !.state = "panicked"], "panicked")
           ELSE IF PreFailed(out)
           THEN Return(p, c, "nil", out)
           ELSE Continue(p, c, "delegate")
    /\ UNCHANGED <<input, output, kind, optsIn, obj, opts, first, closed, mut, sink, fails,
                   nextId, lockOrder, finalized>>

\* DelegateFailed with the fault that the inner transport's error is dropped.
DelegateNeverFailed(t) == FALSE

\* round_tripper.go:124: the inner transport returned an error
DelegateFailed(t) == t # "resp"

\* RT_delegate with the fault that the response goes to the hook without
\* post-capture.
RT_delegateSkipsPost(p) ==
    /\ kind = "rt" /\ pc[p] = "delegate"
    /\ \E t \in TransportResults :
       LET c == [call[p] EXCEPT !.delegated = TRUE, !.tres = t]
       IN  IF DelegateFailed(t)
           THEN Return(p, c, "nil", t)
           ELSE Continue(p, c, "hook")
    /\ UNCHANGED <<input, output, kind, optsIn, obj, opts, first, closed, mut, sink, fails,
                   nextId, lockOrder, finalized>>

RT_delegate(p) ==
    /\ kind = "rt" /\ pc[p] = "delegate"
    /\ \E t \in TransportResults :
       LET c == [call[p] EXCEPT !.delegated = TRUE, !.tres = t]
       IN  IF DelegateFailed(t)
           THEN Return(p, c, "nil", t)
           ELSE Continue(p, c, "post")
    /\ UNCHANGED <<input, output, kind, optsIn, obj, opts, first, closed, mut, sink, fails,
                   nextId, lockOrder, finalized>>

\* PostFailed with the fault that the error of postRoundTrip is dropped.
PostNeverFailed(out) == FALSE

\* round_tripper.go:129: postRoundTrip returned an error
PostFailed(out) == out \in PostErrors

RT_postRoundTrip(p) ==
    /\ kind = "rt" /\ pc[p] = "post"
    /\ \E r \in Responses :
       LET out == postRoundTrip(r)
           c == [call[p] EXCEPT !.post = IF out \in PostErrors THEN out ELSE "ok"]
       IN  IF PostFailed(out)
           THEN Return(p, c, "resp", out)
           ELSE Continue(p, c, "hook")
    /\ UNCHANGED <<input, output, kind, optsIn, obj, opts, first, closed, mut, sink, fails,
                   nextId, lockOrder, finalized>>

\* Suppressed with the fault that the nil test is inverted.
SuppressedInverted(h) == h # "nil"

\* round_tripper.go:145: the hook's result suppresses the write
Suppressed(h) == h = "nil"

RT_rewrite(p) ==
    /\ kind = "rt" /\ pc[p] = "hook"
    /\ \E h \in HookResults(opts.Rewrite) :
       LET c == [call[p] EXCEPT !.hook = h]
       IN  IF Suppressed(h)
           THEN Return(p, c, "resp", "nil")
           ELSE Continue(p, c, "lock")
    /\ UNCHANGED <<input, output, kind, optsIn, obj, opts, first, closed, mut, sink, fails,
                   nextId, lockOrder, finalized>>

RT_lock(p) ==
    /\ kind = "rt" /\ pc[p] = "lock"
    /\ Lock(p, "crit")

\* NeedsSep with the fault that the separator is written always, or never.
NeedsSepAlways(f) == TRUE
NeedsSepNever(f) == FALSE

\* round_tripper.go:152 / writers.go:56: a separator precedes the entry
NeedsSep(f) == ~f

\* `if !first { Write(",\n") }; first = false`, shared by writeEntry and
\* HarWriter.WriteEntry: on a refused write the deferred Unlock runs and the
\* call returns the error.
SepStep(p, resp) ==
    IF NeedsSep(first)
    THEN \E ok \in WriteOutcomes :
         /\ sink' = SinkWrite(sink, Sep(Me(p), mut = p), ok)
         /\ fails' = Refused(ok)
         /\ IF ok
            THEN /\ first' = FALSE
                 /\ Continue(p, call[p], "entry")
                 /\ UNCHANGED mut
            ELSE /\ mut' = Unlocked
                 /\ Return(p, call[p], resp, "writing har entry")
                 /\ UNCHANGED first
    ELSE /\ first' = FALSE
         /\ Continue(p, call[p], "entry")
         /\ UNCHANGED <<mut, sink, fails>>

\* `Write(entry)`, then the deferred Unlock and the return.
BytesStep(p, resp, e) ==
    \E ok \in WriteOutcomes :
    /\ sink' = SinkWrite(sink, EntryChunk(e, Me(p), mut = p), ok)
    /\ fails' = Refused(ok)
    /\ mut' = Unlocked
    /\ Return(p, call[p], resp, IF ok THEN "nil" ELSE "writing har entry")

RT_writeSep(p) ==
    /\ kind = "rt" /\ pc[p] = "crit"
    /\ SepStep(p, "resp")
    /\ UNCHANGED <<input, output, kind, optsIn, obj, opts, closed, nextId, lockOrder, finalized>>

RT_writeBytes(p) ==
    /\ kind = "rt" /\ pc[p] = "entry"
    /\ BytesStep(p, "resp", <<Me(p), call[p].hook>>)
    /\ UNCHANGED <<input, output, kind, optsIn, obj, opts, first, closed, nextId, lockOrder, finalized>>

\* --------------------------------------------------- RoundTripper.Close
RT_CloseCall(p) ==
    /\ kind = "rt"
    /\ Invoke(p, "Close", "close")

\* Close writes without taking rt.mut.  While another goroutine holds the
\* mutex, that goroutine's Write and this one are unsynchronised accesses to
\* the sink: the postamble may land whole or as torn bytes.
CloseChunks(p) ==
    IF mut # 0 THEN {Post(Me(p), mut = p), Torn(Me(p))} ELSE {Post(Me(p), mut = p)}

RT_Close(p) ==
    /\ kind = "rt" /\ pc[p] = "close"
    /\ \E ok \in WriteOutcomes : \E ch \in CloseChunks(p) :
       /\ sink' = SinkWrite(sink, ch, ok)
       /\ fails' = Refused(ok)
       /\ Return(p, call[p], "nil", IF ok THEN "nil" ELSE "closing har writer")
    /\ finalized' = TRUE
    /\ UNCHANGED <<input, output, kind, optsIn, obj, opts, first, closed, mut, nextId, lockOrder>>

\* ------------------------------------------------------------ HarWriter
HW_WriteEntryCall(p) ==
    /\ kind = "hw"
    /\ Invoke(p, "WriteEntry", "lock")

HW_lock(p) ==
    /\ kind = "hw" /\ pc[p] = "lock"
    /\ Lock(p, "crit")

\* AlreadyClosed with the fault that the closed flag is not looked at.
NeverClosed(c) == FALSE

\* writers.go:52,77: the writer was closed
AlreadyClosed(c) == c

HW_writeSep(p) ==
    /\ kind = "hw" /\ pc[p] = "crit"
    /\ IF AlreadyClosed(closed)
       THEN /\ mut' = Unlocked
            /\ Return(p, call[p], "nil", "HarWriter already closed")
            /\ UNCHANGED <<first, sink, fails>>
       ELSE SepStep(p, "nil")
    /\ UNCHANGED <<input, output, kind, optsIn, obj, opts, closed, nextId, lockOrder, finalized>>

HW_writeBytes(p) ==
    /\ kind = "hw" /\ pc[p] = "entry"
    /\ BytesStep(p, "nil", <<Me(p), "raw">>)
    /\ UNCHANGED <<input, output, kind, optsIn, obj, opts, first, closed, nextId, lockOrder, finalized>>

HW_CloseCall(p) ==
    /\ kind = "hw"
    /\ Invoke(p, "Close", "clock")

HW_CloseLock(p) ==
    /\ kind = "hw" /\ pc[p] = "clock"
    /\ Lock(p, "ccrit")

HW_Close(p) ==
    /\ kind = "hw" /\ pc[p] = "ccrit"
    /\ IF AlreadyClosed(closed)
       THEN /\ Return(p, call[p], "nil", "HarWriter already closed")
            /\ UNCHANGED <<closed, sink, fails>>
       ELSE \E ok \in WriteOutcomes :
            /\ closed' = TRUE
            /\ sink' = SinkWrite(sink, Post(Me(p), mut = p), ok)
            /\ fails' = Refused(ok)
            /\ Return(p, call[p], "nil", IF ok THEN "nil" ELSE "closing har writer")
    /\ mut' = Unlocked
    /\ finalized' = TRUE
    /\ UNCHANGED <<input, output, kind, optsIn, obj, opts, first, nextId, lockOrder>>

\* ---------------------------------------------------------- HarNDWriter
ND_WriteEntryCall(p) ==
    /\ kind = "nd"
    /\ Invoke(p, "WriteEntry", "lock")

ND_lock(p) ==
    /\ kind = "nd" /\ pc[p] = "lock"
    /\ Lock(p, "crit")

ND_writeBytes(p) ==
    /\ kind = "nd" /\ pc[p] = "crit"
    /\ \E ok \in WriteOutcomes :
       /\ sink' = SinkWrite(sink, EntryChunk(<<Me(p), "raw">>, Me(p), mut = p), ok)
       /\ fails' = Refused(ok)
       /\ IF ok
          THEN /\ Continue(p, call[p], "nl")
               /\ UNCHANGED mut
          ELSE /\ mut' = Unlocked
               /\ Return(p, call[p], "nil", "short write")
    /\ UNCHANGED <<input, output, kind, optsIn, obj, opts, first, closed, nextId, lockOrder, finalized>>

ND_writeNewline(p) ==
    /\ kind = "nd" /\ pc[p] = "nl"
    /\ \E ok \in WriteOutcomes :
       /\ sink' = SinkWrite(sink, Newline(Me(p), mut = p), ok)
       /\ fails' = Refused(ok)
       /\ mut' = Unlocked
       /\ Return(p, call[p], "nil", IF ok THEN "nil" ELSE "short write")
    /\ UNCHANGED <<input, output, kind, optsIn, obj, opts, first, closed, nextId, lockOrder, finalized>>

\* ------------------------------------------------------------------ spec
Next ==
    \/ New
    \/ NewHarWriter
    \/ NewHarNDWriter
    \/ \E p \in Procs :
       \/ RoundTrip(p)
       \/ RT_preRoundTrip(p)
       \/ RT_delegate(p)
       \/ RT_postRoundTrip(p)
       \/ RT_rewrite(p)
       \/ RT_lock(p)
       \/ RT_writeSep(p)
       \/ RT_writeBytes(p)
       \/ RT_CloseCall(p)
       \/ RT_Close(p)
       \/ HW_WriteEntryCall(p)
       \/ HW_lock(p)
       \/ HW_writeSep(p)
       \/ HW_writeBytes(p)
       \/ HW_CloseCall(p)
       \/ HW_CloseLock(p)
       \/ HW_Close(p)
       \/ ND_WriteEntryCall(p)
       \/ ND_lock(p)
       \/ ND_writeBytes(p)
       \/ ND_writeNewline(p)

Spec == Init /\ [][Next]_vars

\* A call in progress goes on: the Go scheduler runs every runnable
\* goroutine, the sink and the inner transport return, and a goroutine
\* waiting in Lock gets the mutex when it is released often enough
\* (sync.Mutex hands the mutex over to a starving waiter).  Callers are not
\* obliged to make calls.
Running(p) ==
    \/ RT_preRoundTrip(p) \/ RT_delegate(p) \/ RT_postRoundTrip(p) \/ RT_rewrite(p)
    \/ RT_writeSep(p) \/ RT_writeBytes(p) \/ RT_Close(p)
    \/ HW_writeSep(p) \/ HW_writeBytes(p) \/ HW_Close(p)
    \/ ND_writeBytes(p) \/ ND_writeNewline(p)
Locking(p) == RT_lock(p) \/ HW_lock(p) \/ HW_CloseLock(p) \/ ND_lock(p)
FairSpec ==
    /\ Spec
    /\ \A p \in Procs : WF_vars(Running(p)) /\ SF_vars(Locking(p))

\* ================================================ function-level specs
\* The writer's variables, at rest while a function is studied on its own.
AtRest ==
    /\ kind = "rt" /\ optsIn = NilOptions /\ obj = "none" /\ opts = DefaultOptions
    /\ first = FALSE /\ closed = FALSE /\ mut = 0 /\ sink = <<>> /\ fails = 0
    /\ pc = [p \in Procs |-> "idle"] /\ call = [p \in Procs |-> NoCall]
    /\ nextId = 1 /\ lockOrder = <<>> /\ finalized = FALSE /\ succeeded = {}
writerVars == <<kind, optsIn, obj, opts, first, closed, mut, sink, fails, pc, call,
                nextId, lockOrder, finalized, succeeded>>

\* ------------------------------------- preRoundTrip: the request body
MaxBody == 2
Bytes == {"a", "%"}
RECURSIVE SeqsUpTo(_)
SeqsUpTo(n) ==
    IF n = 0 THEN {<<>>}
    ELSE SeqsUpTo(n - 1) \cup
         {Append(b, x) : b \in {c \in SeqsUpTo(n - 1) : Len(c) = n - 1}, x \in Bytes}
Bodies == SeqsUpTo(MaxBody)

\* An io.Reader over data, read up to pos.
Reader(data, pos) == [data |-> data, pos |-> pos]
NilReader == [data |-> <<>>, pos |-> 0, isNil |-> TRUE]
\* io.ReadAll: the bytes not yet read; the reader is left at its end.
ReadAll(s) == SubSeq(s.data, s.pos + 1, Len(s.data))
Drained(s) == Reader(s.data, Len(s.data))

\* A request with its body bytes: Request's fields, the method and the bytes
\* r.Body yields.
BodyRequests ==
    [method : {"GET", "POST"}, data : Bodies, body : {"nil", "present"},
     getBody : {"nil", "ok", "err"}, read : {"ok", "err"}, ctype : ContentTypes,
     form : {"ok", "malformed"}]

\* Request.ParseForm reads r.Body for these methods only (net/http).
FormMethods == {"POST", "PUT", "PATCH"}

\* Rebuffered with the fault that r.Body is set to reqBody, the reader that
\* io.ReadAll has just read to its end.
RebufferedSpent(b) == Reader(b, Len(b))

\* round_tripper.go:203,219: io.NopCloser(bytes.NewBuffer(reqBodyBytes))
Rebuffered(b) == Reader(b, 0)

\* preRoundTrip, with what it does to the request body: its outcome, the
\* reader left in r.Body and PostData.Text.
preRoundTripBody(r) ==
    LET out == preRoundTrip(Request(r.body, r.getBody, r.read, r.ctype, r.form))
        orig == Reader(r.data, 0)                   \* r.Body
        reqBody == Reader(r.data, 0)                \* r.GetBody(): a new copy
        reqBodyBytes == ReadAll(reqBody)
        mediaType == ParseMediaType(r.ctype)
        parsed == r.getBody = "ok" /\ r.read = "ok"
                  /\ mediaType \in {"application/x-www-form-urlencoded",
                                    "multipart/form-data"}
        consumed == parsed /\ (mediaType = "multipart/form-data"
                               \/ r.method \in FormMethods)
        rBody == IF r.body = "nil" THEN NilReader
                 ELSE IF parsed /\ out = "ok" THEN Rebuffered(reqBodyBytes)
                 ELSE IF consumed THEN Drained(orig)
                 ELSE orig
    IN  [stage |-> "pre", out |-> out, rBody |-> rBody, consumed |-> consumed,
         text |-> IF r.body = "present" /\ r.getBody = "ok" /\ r.read = "ok"
                  THEN reqBodyBytes ELSE <<>>,
         sent |-> <<>>]

NoOutput == [stage |-> "none"]

InitBody ==
    /\ AtRest
    /\ input \in BodyRequests
    /\ output = NoOutput

\* round_tripper.go:115: preRoundTrip(req)
PreCapture ==
    /\ output.stage = "none"
    /\ output' = preRoundTripBody(input)
    /\ UNCHANGED <<input, writerVars>>

\* round_tripper.go:123: the inner transport reads the body of the request it
\* is handed.
Delegate ==
    /\ output.stage = "pre" /\ output.out = "ok"
    /\ output' = [output EXCEPT !.stage = "delegated",
                                !.sent = ReadAll(output.rBody),
                                !.rBody = Drained(output.rBody)]
    /\ UNCHANGED <<input, writerVars>>

NextBody ==
    \/ PreCapture
    \/ Delegate

SpecBody == InitBody /\ [][NextBody]_vars

\* ------------------------------------------ postRoundTrip: the timings
\* The timestamps a clientTracer records, in the order in which a transport
\* fires their events; startAt is set when the tracer is made and endAt by
\* postRoundTrip.  A time.Time is its reading of the clock (1 and up), or 0
\* for the zero Time of a field whose event never fired.
MaxGap == 1
TraceEvents == <<"connStart", "dnsStart", "dnsEnd", "tlsHandshakeStart",
                 "tlsHandshakeEnd", "connObtained", "writeRequest",
                 "firstResponseByte">>
newClientTracer ==
    [startAt |-> 1, connStart |-> 0, dnsStart |-> 0, dnsEnd |-> 0,
     tlsHandshakeStart |-> 0, tlsHandshakeEnd |-> 0, connObtained |-> 0,
     writeRequest |-> 0, firstResponseByte |-> 0, endAt |-> 0,
     last |-> 0, now |-> 1]

IsZero(t) == t = 0
\* time.Time.Sub saturates: the zero Time lies further from any reading of
\* the clock than a time.Duration can hold.
MinDuration == -2147483647
MaxDuration == 2147483647
Sub(t, u) ==
    IF IsZero(t) /\ IsZero(u) THEN 0
    ELSE IF IsZero(t) THEN MinDuration
    ELSE IF IsZero(u) THEN MaxDuration
    ELSE t - u

\* round_tripper.go:302-319
Timings(trace) ==
    [stage |-> "timings",
     Blocked |-> Sub(trace.connStart, trace.startAt),
     DNS |-> IF ~IsZero(trace.dnsStart)
             THEN Sub(trace.dnsEnd, trace.dnsStart) ELSE -1,
     Connect |-> IF ~IsZero(trace.connStart)
                 THEN Sub(trace.connObtained, trace.connStart) ELSE -1,
     Send |-> Sub(trace.writeRequest, trace.connObtained),
     Wait |-> Sub(trace.firstResponseByte, trace.writeRequest),
     Receive |-> Sub(trace.endAt, trace.firstResponseByte),
     SSL |-> IF ~IsZero(trace.tlsHandshakeStart)
             THEN Sub(trace.tlsHandshakeEnd, trace.tlsHandshakeStart) ELSE -1]

InitTimings ==
    /\ AtRest
    /\ input = newClientTracer
    /\ output = NoOutput

\* The transport fires a lifecycle event, later in the order than the ones
\* it has fired; the tracer stores the clock's reading, which never goes
\* back.
Fire(i) ==
    /\ output.stage = "none" /\ i > input.last
    /\ \E gap \in 0..MaxGap :
       input' = [input EXCEPT ![TraceEvents[i]] = input.now + gap,
                              !.now = input.now + gap, !.last = i]
    /\ UNCHANGED <<output, writerVars>>

\* round_tripper.go:300-320
postRoundTripTimings ==
    /\ output.stage = "none"
    /\ \E gap \in 0..MaxGap :
       LET trace == [input EXCEPT !.endAt = input.now + gap, !.now = input.now + gap]
       IN  /\ input' = trace
           /\ output' = Timings(trace)
    /\ UNCHANGED writerVars

NextTimings ==
    \/ \E i \in 1..Len(TraceEvents) : Fire(i)
    \/ postRoundTripTimings

SpecTimings == InitTimings /\ [][NextTimings]_vars

\* ============================================================== properties
Idx == 1..Len(sink)
IsPreamble(c) == c.op = 0
IsCloseWrite(c) == c.k \in {"\n]}}", "torn"}
IsEntryWrite(c) == c.k \in {",\n", "entry", "\n"}
EntriesOf(id) == {i \in Idx : sink[i].op = id /\ sink[i].k = "entry"}
WritesOf(id) == {i \in Idx : sink[i].op = id}
InWrite(p) == pc[p] \in {"crit", "entry", "nl", "ccrit"}
\* The creator the constructor marshalled.
EffectiveCreator == IF kind = "rt" THEN opts.Creator ELSE optsIn.Creator
Body == SubSeq(sink, 4, Len(sink) - 1)
Returned(p, op) == call[p].op = op /\ call[p].state = "returned"

\* Entries joined by ",\n": entries at the odd places, separators at the
\* even ones, an entry last.
Joined(b) ==
    /\ Len(b) = 0 \/ Len(b) % 2 = 1
    /\ \A i \in 1..Len(b) :
         b[i].k = (IF i % 2 = 1 THEN "entry" ELSE ",\n")

\* The framed writer has been finalized once, by the last write, after
\* entry writes that all succeeded and have all returned.
FinalizedOnce ==
    /\ kind \in {"rt", "hw"} /\ obj = "ready"
    /\ fails = 0
    /\ \A p \in Procs : ~InWrite(p)
    /\ Len(sink) > 0 /\ IsCloseWrite(sink[Len(sink)])
    /\ Cardinality({i \in Idx : IsCloseWrite(sink[i])}) = 1

\* C1: in framed-array mode (HarWriter and RoundTripper), after n >= 0
\* successful entry writes followed by one finalize the sink holds exactly
\* the preamble (with the creator's JSON), the entries joined by ",\n" with
\* no separator before the first or after the last, and the postamble.
FramedDocument ==
    FinalizedOnce =>
        /\ Len(sink) >= 4
        /\ SubSeq(sink, 1, 3) = PreambleChunks(EffectiveCreator)
        /\ Joined(Body)
        /\ sink[Len(sink)].k = "\n]}}"

FramedDocumentWitness ==
    /\ FinalizedOnce /\ kind = "rt"
    /\ Len(Body) = 3

\* C2: the sink writes of one entry-write call are contiguous among the
\* entry writes, and the calls' writes appear in the order in which the
\* calls acquired the lock.
EntryWrites == SelectSeq(sink, IsEntryWrite)
LockPos(id) ==
    IF \E n \in 1..Len(lockOrder) : lockOrder[n] = id
    THEN CHOOSE n \in 1..Len(lockOrder) : lockOrder[n] = id
    ELSE 0

EntriesAtomicInLockOrder ==
    /\ \A i \in 1..Len(EntryWrites) : LockPos(EntryWrites[i].op) >= 1
    /\ \A i \in 1..(Len(EntryWrites) - 1) :
         LockPos(EntryWrites[i].op) <= LockPos(EntryWrites[i + 1].op)
    /\ \A i, j \in 1..Len(lockOrder) : lockOrder[i] = lockOrder[j] => i = j

\* One call is between its separator and its entry bytes while another call
\* waits for the lock.
EntriesAtomicWitness ==
    \E p, q \in Procs :
        /\ pc[p] = "entry" /\ pc[q] = "lock"
        /\ Len(sink) > 0
        /\ sink[Len(sink)] = Sep(Me(p), TRUE)

\* C3 (as stated): every RoundTrip whose inner transport returned a response
\* writes exactly one entry (default hook, sink accepting the writes),
\* whatever the response is.
OneEntryPerResponse ==
    \A p \in Procs :
        (/\ Returned(p, "RoundTrip")
         /\ call[p].tres = "resp"
         /\ opts.Rewrite = "identity"
         /\ call[p].rerr # "writing har entry")
        => Cardinality(EntriesOf(Me(p))) = 1

\* C3 (amended): ... provided post-capture succeeded, that is the response
\* body was read and the response Content-Type parsed.  The call then
\* returns the response and no error.
OneEntryPerCapturedResponse ==
    \A p \in Procs :
        (/\ Returned(p, "RoundTrip")
         /\ call[p].tres = "resp"
         /\ call[p].post = "ok"
         /\ opts.Rewrite = "identity"
         /\ call[p].rerr # "writing har entry")
        => /\ Cardinality(EntriesOf(Me(p))) = 1
           /\ call[p].rerr = "nil" /\ call[p].rresp = "resp"

OneEntryWitness ==
    \E p \in Procs :
        /\ Returned(p, "RoundTrip")
        /\ call[p].tres = "resp" /\ call[p].post = "ok"
        /\ opts.Rewrite = "identity"
        /\ call[p].rerr = "nil"
        /\ Cardinality(EntriesOf(Me(p))) = 1

\* C4: when the inner transport returns an error, RoundTrip returns that
\* same error, runs neither post-capture nor the hook, and writes nothing.
TransportErrorPropagated ==
    \A p \in Procs :
        call[p].tres \in TransportErrs =>
            /\ call[p].state = "returned" /\ pc[p] = "idle"
            /\ call[p].rerr = call[p].tres
            /\ call[p].post = "none" /\ call[p].hook = "none"
            /\ WritesOf(Me(p)) = {}

\* A transport error was returned while the sink already holds entries.
TransportErrorWitness ==
    \E p \in Procs :
        /\ Returned(p, "RoundTrip")
        /\ call[p].tres = "context deadline exceeded"
        /\ call[p].rerr = "context deadline exceeded"
        /\ \E i \in Idx : sink[i].k = "entry"

\* C5: when pre-capture fails, RoundTrip returns the error, the inner
\* transport is never invoked and nothing is written.
PreCaptureFailureAborts ==
    \A p \in Procs :
        call[p].pre \in PreErrors =>
            /\ call[p].state = "returned" /\ pc[p] = "idle"
            /\ call[p].rerr = call[p].pre
            /\ ~call[p].delegated /\ call[p].tres = "none"
            /\ WritesOf(Me(p)) = {}

PreCaptureFailureWitness ==
    \E p \in Procs :
        /\ Returned(p, "RoundTrip")
        /\ call[p].pre = "parsing multipart form in request body"
        /\ call[p].rerr # "nil"
        /\ \E i \in Idx : sink[i].k = "entry"

\* C6: HarWriter: a WriteEntry or Close call made after a Close has returned
\* returns the "already closed" error and writes nothing; in every
\* interleaving the postamble is written at most once and nothing follows it.
ClosedWriterRejects ==
    kind = "hw" =>
        /\ \A p \in Procs :
             call[p].afterClose =>
                 /\ WritesOf(Me(p)) = {}
                 /\ call[p].state = "returned" =>
                        call[p].rerr = "HarWriter already closed"
        /\ Cardinality({i \in Idx : sink[i].k = "\n]}}"}) <= 1
        /\ \A i \in Idx : sink[i].k = "\n]}}" => i = Len(sink)

\* A WriteEntry that began after Close returned was refused, and so was a
\* second Close, with the postamble in the sink.
ClosedWriterWitness ==
    /\ kind = "hw"
    /\ \E p \in Procs : Returned(p, "WriteEntry") /\ call[p].afterClose
    /\ \E q \in Procs : Returned(q, "Close") /\ call[q].afterClose
    /\ Len(sink) > 3 /\ sink[Len(sink)].k = "\n]}}"

\* C7 (as stated): RoundTripper, with a sink that accepts every write: a
\* Close made after a Close has returned returns an error, and no entry
\* write follows the postamble in the sink.
FinalizeGuardedRT ==
    (kind = "rt" /\ fails = 0) =>
        /\ \A p \in Procs :
             (Returned(p, "Close") /\ call[p].afterClose) => call[p].rerr # "nil"
        /\ \A i, j \in Idx :
             (i < j /\ sink[i].k = "\n]}}") => ~IsEntryWrite(sink[j])

\* C8 (as stated): a hook result that is empty (nil, or a slice of length 0)
\* suppresses the write: the call makes no Write for a separator or for the
\* entry and returns the response without error (the sink accepting every
\* write it is given).
EmptyHookResultSuppresses ==
    \A p \in Procs :
        (call[p].hook \in {"nil", "empty"} /\ fails = 0) =>
            /\ WritesOf(Me(p)) = {}
            /\ call[p].state = "returned" =>
                   (call[p].rerr = "nil" /\ call[p].rresp = "resp")

\* C9: RoundTripper with the default hook, all goroutines back, no refused
\* write, finalized once by the last write: every exchange that returned
\* without error has exactly one entry in the sink, the sink holds N entries
\* and N-1 separators for the N such exchanges, every separator lies between
\* two entries and the first entry follows the preamble directly.
NumEntries == Cardinality({i \in Idx : sink[i].k = "entry"})
NumSeps == Cardinality({i \in Idx : sink[i].k = ",\n"})

ConcurrentExchangesFramed ==
    (/\ kind = "rt" /\ opts.Rewrite = "identity"
     /\ FinalizedOnce
     /\ \A p \in Procs : pc[p] \in {"idle", "panicked"})
    => /\ \A id \in succeeded : Cardinality(EntriesOf(id)) = 1
       /\ NumEntries = Cardinality(succeeded)
       /\ NumSeps = (IF succeeded = {} THEN 0 ELSE Cardinality(succeeded) - 1)
       /\ \A i \in Idx :
            sink[i].k = ",\n" =>
                /\ 1 < i /\ i < Len(sink)
                /\ sink[i - 1].k = "entry" /\ sink[i + 1].k = "entry"
       /\ succeeded # {} => sink[4].k = "entry"

\* Two exchanges ran concurrently: the one that began second wrote first.
ConcurrentExchangesWitness ==
    /\ kind = "rt" /\ opts.Rewrite = "identity"
    /\ FinalizedOnce
    /\ \A p \in Procs : pc[p] = "idle"
    /\ succeeded = {1, 2}
    /\ lockOrder = <<2, 1>>

\* C10 (as stated): every write to the sink after construction is made with
\* the mutex held, and the closing structure never lands between an entry's
\* separator and its bytes.
SinkWritesUnderLock ==
    /\ \A i \in Idx : ~IsPreamble(sink[i]) => sink[i].locked
    /\ \A i \in Idx :
         (IsCloseWrite(sink[i]) /\ 1 < i /\ i < Len(sink)) =>
             ~(/\ sink[i - 1].k = ",\n" /\ sink[i + 1].k = "entry"
               /\ sink[i - 1].op = sink[i + 1].op)

\* C11: the writer lock is held only inside the sink-writing section of
\* writeEntry, WriteEntry or Close: never by an exchange that is in
\* pre-capture, in the inner transport, in post-capture or in the rewrite
\* hook, and never by a call that has returned.  So an exchange that sits in
\* the inner transport can take its step whoever holds the lock.
Capturing(p) == pc[p] \in {"pre", "delegate", "post", "hook"}
LockHeldOnlyWhileWriting ==
    /\ mut \in Procs \cup {0}
    /\ \A p \in Procs :
         /\ mut = p => InWrite(p) /\ call[p].state = "running"
         /\ Capturing(p) \/ pc[p] \in {"idle", "lock", "clock", "close", "panicked"}
              => mut # p
         /\ pc[p] = "delegate" => ENABLED RT_delegate(p)
\* One exchange is in the inner transport while another holds the lock
\* between its separator and its entry.
LockHeldOnlyWhileWritingWitness ==
    \E p, q \in Procs :
      /\ kind = "rt" /\ mut = p /\ pc[p] = "entry"
      /\ pc[q] = "delegate" /\ ENABLED RT_delegate(q)

\* C12: for every request that carries a body, the bytes the inner transport
\* reads from the request body when RoundTrip delegates are the original
\* body, whole and in order, whatever the content type and whether or not
\* form parsing read the original stream to its end; PostData.Text holds the
\* same bytes.
BodyRoundTrip ==
    output.stage = "delegated" /\ input.body = "present"
      => output.sent = input.data /\ output.text = input.data
\* A POST of a non-empty urlencoded body, whose stream ParseForm consumed,
\* has been delegated.
BodyRoundTripWitness ==
    /\ output.stage = "delegated" /\ input.body = "present"
    /\ input.method = "POST" /\ input.ctype = "application/x-www-form-urlencoded"
    /\ output.consumed /\ Len(input.data) = MaxBody
    /\ output.sent = input.data

\* C13: the stages of one exchange run in a fixed order: the inner transport
\* is invoked only after pre-capture has completed, post-capture starts only
\* after the inner transport has returned a response, the rewrite hook is
\* called only after post-capture has completed, and no byte of the entry
\* is written (nor the lock taken) before the hook has returned its bytes.
StagesInOrder ==
    \A p \in Procs : call[p].op = "RoundTrip" =>
      /\ pc[p] = "delegate" \/ call[p].delegated => call[p].pre = "ok"
      /\ pc[p] = "post" \/ call[p].post # "none"
           => call[p].delegated /\ call[p].tres = "resp"
      /\ pc[p] = "hook" \/ call[p].hook # "none" => call[p].post = "ok"
      /\ pc[p] \in {"lock", "crit", "entry"} \/ WritesOf(Me(p)) # {}
           => call[p].hook \in {"same", "empty", "rewritten"}
\* An exchange has gone through every stage and written its rewritten entry.
StagesInOrderWitness ==
    \E p \in Procs :
      /\ Returned(p, "RoundTrip") /\ call[p].rerr = "nil"
      /\ call[p].pre = "ok" /\ call[p].tres = "resp" /\ call[p].post = "ok"
      /\ call[p].hook = "rewritten" /\ EntriesOf(Me(p)) # {}

\* C14: New.  When the effective Creator (the caller's, or the default when
\* the caller passes no options or no Creator) has an empty name or version,
\* New fails and has written nothing.  When a preamble write is refused, New
\* fails, with at most a part of the preamble in the sink.  Otherwise a
\* RoundTripper is returned, the sink holds exactly the preamble with the
\* effective Creator, the next entry is the first, and a nil Rewrite is
\* replaced by the identity hook.
CallerCreator ==
    IF optsIn.isNil \/ optsIn.Creator.isNil THEN DefaultCreator ELSE optsIn.Creator
CallerRewrite ==
    IF optsIn.isNil \/ optsIn.Rewrite = "nil" THEN "identity" ELSE optsIn.Rewrite
PreambleOf(c) ==
    <<Chunk("{\"log\":{\"version\":\"1.2\",\"creator\":", NoEntry, 0, FALSE),
      Chunk("creator", <<0, c.Name>>, 0, FALSE),
      Chunk(",\"entries\":[\n", NoEntry, 0, FALSE)>>
NewContract ==
    kind = "rt" /\ obj # "none" =>
      /\ CallerCreator.Name = "" \/ CallerCreator.Version = ""
           => obj = "failed" /\ sink = <<>> /\ fails = 0
      /\ obj = "failed" /\ CallerCreator.Name # "" /\ CallerCreator.Version # ""
           => /\ fails = 1 /\ Len(sink) < 3
              /\ sink = SubSeq(PreambleOf(CallerCreator), 1, Len(sink))
      /\ obj = "ready"
           => /\ Len(sink) >= 3
              /\ SubSeq(sink, 1, 3) = PreambleOf(CallerCreator)
              /\ opts.Creator = CallerCreator /\ opts.Rewrite = CallerRewrite
              /\ nextId = 1 => sink = PreambleOf(CallerCreator) /\ first
\* New has refused a Creator with an empty version and left the sink empty.
NewContractWitness ==
    /\ kind = "rt" /\ obj = "failed" /\ sink = <<>>
    /\ ~optsIn.isNil /\ ~optsIn.Creator.isNil
    /\ optsIn.Creator.Name # "" /\ optsIn.Creator.Version = ""

\* C15: HarNDWriter.  Construction writes nothing, and while every write has
\* succeeded and no call is between its two writes, the sink is exactly the
\* entries of the calls in the order in which they took the lock, each
\* immediately followed by one newline: no preamble, separator or postamble.
NDQuiet == fails = 0 /\ \A p \in Procs : pc[p] \notin {"crit", "nl"}
NDLines ==
    kind = "nd" =>
      /\ nextId = 1 => sink = <<>>
      /\ NDQuiet =>
           /\ Len(sink) = 2 * Len(lockOrder)
           /\ \A i \in 1..Len(lockOrder) :
                /\ sink[2 * i - 1] =
                     Chunk("entry", <<lockOrder[i], "raw">>, lockOrder[i], TRUE)
                /\ sink[2 * i] = Chunk("\n", NoEntry, lockOrder[i], TRUE)
\* Two concurrent WriteEntry calls have written their lines, the later call
\* first.
NDLinesWitness ==
    /\ kind = "nd" /\ NDQuiet /\ lockOrder = <<2, 1>> /\ Len(sink) = 4
    /\ \E p, q \in Procs :
         /\ Me(p) = 1 /\ Returned(p, "WriteEntry") /\ call[p].rerr = "nil"
         /\ Me(q) = 2 /\ Returned(q, "WriteEntry") /\ call[q].rerr = "nil"

\* C16: an exchange that fails before the write step (in pre-capture, in the
\* inner transport or in post-capture) leaves the sink and the first flag
\* as they were: every step of an exchange that has not passed all three
\* stages changes neither.
NotThroughCapture(c) ==
    c.op = "RoundTrip" /\ (c.pre # "ok" \/ c.tres # "resp" \/ c.post # "ok")
FailedExchangeFrame ==
    [][\A p \in Procs :
         kind = "rt" /\ pc'[p] # pc[p] /\ NotThroughCapture(call'[p])
           => sink' = sink /\ first' = first]_vars
\* An exchange has failed in post-capture after another one wrote its entry;
\* the sink holds nothing of the failed one.
FailedExchangeFrameWitness ==
    \E p \in Procs :
      /\ Returned(p, "RoundTrip") /\ call[p].post \in PostErrors
      /\ WritesOf(Me(p)) = {}
      /\ ~first /\ \E i \in Idx : sink[i].k = "entry" /\ sink[i].op < Me(p)

\* C17: in every written entry each Timings field (blocked, DNS, connect,
\* SSL, send, wait, receive) is a non-negative duration or exactly -1,
\* whichever lifecycle events the transport fired (none at all included),
\* their timestamps never going back.
TimingFields == {"Blocked", "DNS", "Connect", "Send", "Wait", "Receive", "SSL"}
TimingsNonNegative ==
    output.stage = "timings" =>
      \A f \in TimingFields : output[f] >= 0 \/ output[f] = -1

\* C18: in the framed writers, with a sink that may refuse writes, a
\* separator is written only after the bytes of at least one entry have
\* been written: when the write of the very first entry fails, the next
\* entry written is not preceded by a separator.
SeparatorOnlyAfterEntry ==
    kind \in {"rt", "hw"} =>
      \A i \in Idx :
        sink[i].k = ",\n" => \E j \in 1..(i - 1) : sink[j].k = "entry"

\* C19: RoundTrip never returns a response together with an error: on every
\* failing path the response it returns is nil.
ResponseOrError ==
    \A p \in Procs :
      Returned(p, "RoundTrip") => ~(call[p].rresp # "nil" /\ call[p].rerr # "nil")

\* C20: the writer lock is released on every path through writeEntry,
\* WriteEntry and Close, a refused write and a closed writer included: no
\* call that has returned holds it.  Hence, under fair scheduling, every
\* entry-write or finalize call that has started returns.
InWriterCall(p) == pc[p] \in {"lock", "crit", "entry", "nl", "clock", "ccrit", "close"}
LockReleasedCallsReturn ==
    /\ [](\A p \in Procs : call[p].state # "running" => mut # p)
    /\ \A p \in Procs : InWriterCall(p) ~> pc[p] = "idle"
\* A WriteEntry on a closed HarWriter has returned its error while another
\* call waits for the lock, which is free.
LockReleasedCallsReturnWitness ==
    \E p, q \in Procs :
      /\ kind = "hw" /\ Returned(p, "WriteEntry")
      /\ call[p].rerr = "HarWriter already closed"
      /\ pc[q] = "lock" /\ mut = 0

====
